---- MODULE Spec2Model ----
(***************************************************************************)
(* Model of opendatapy/datapackage.py: the file-backed stores of a         *)
(* datapackage (resources, formats, configurations, views, metadata), the  *)
(* load/merge/write protocol of resources, and the container orchestrator. *)
(*                                                                         *)
(* JSON values: a JSON string s that can stand where an object can is      *)
(* Str(s); a JSON object is a function from its keys to its values; a JSON *)
(* list is a sequence.  A file that does not exist is Missing.             *)
(***************************************************************************)
EXTENDS Integers, Sequences, FiniteSets, TLC

VARIABLES
    resources,       \* resources/<name>.json      name -> record | Missing
    formats,         \* formats/<name>.json        name -> record | Missing
    configurations,  \* configurations/<name>.json name -> record | Missing
    views,           \* views/<name>.json          name -> record | Missing
    datapackage,     \* datapackage.json           record | Missing
    clock,           \* wall clock, in ticks of 1/TicksPerSecond s
    held,            \* the value the caller holds from its last load, or None
    origin,          \* history: the load call that produced `held`
    before,          \* history: the stored records when the last call began
    result,          \* history: the last call, its outcome and its I/O events
    calls            \* the calls in progress, statement by statement: caller -> frame

vars == <<resources, formats, configurations, views, datapackage, clock,
          held, origin, before, result, calls>>

---------------------------------------------------------------------------
(* Bounds of the model *)

MaxClock == 3        \* the wall clock stops advancing here

(* Resolution of the modelled wall clock: time.time() is a float, int()   *)
(* truncates it to whole seconds.                                          *)
TicksPerSecond == 2

---------------------------------------------------------------------------
(* JSON and Python values *)

Str(s) == [str |-> s]
\* Variant: a string passes for an object
IsStr_Never(v) == FALSE
IsStr(v) == "str" \in DOMAIN v
IsDict(v) == ~IsStr(v)

Missing == [missing |-> TRUE]
IsMissing(v) == "missing" \in DOMAIN v

None == [none |-> TRUE]
IsNone(v) == "none" \in DOMAIN v

\* dict.get(k): the value, or Python's None (here the string "None")
DictGet(d, k) == IF k \in DOMAIN d THEN d[k] ELSE "None"
\* d[k] = v
SetItem(d, k, v) == [x \in DOMAIN d \cup {k} |-> IF x = k THEN v ELSE d[x]]
\* d.pop(k) on a dict that has k
Pop(d, k) == [x \in DOMAIN d \ {k} |-> d[x]]

\* `not x` on a JSON list
Falsy(data) == Len(data) = 0

SENTINEL == Str("inherit-from-format")
PLACEHOLDER == [hello |-> "world"]
NoFormat == "<None>"          \* format_name=None

\* TabularDataResource(resource=...) and its to_dict()
TabularDataResource(resource_json) == [typed |-> resource_json]
IsTabularDataResource(v) == "typed" \in DOMAIN v
to_dict(resource) == resource.typed

---------------------------------------------------------------------------
(* Outcome of a call: the exception raised ("None" when it returned), the  *)
(* value returned (or the value attached to the exception), the entities   *)
(* the exception names, and the I/O events of the call in order.           *)

Outcome(exc, val, names, io) == [exc |-> exc, val |-> val, names |-> names, io |-> io]
Return(val, io) == Outcome("None", val, {}, io)
Raise(exc, names, io) == Outcome(exc, None, names, io)

Read(dir, name) == [ev |-> "read", dir |-> dir, name |-> name]
Write(dir, name) == [ev |-> "write", dir |-> dir, name |-> name]

RESOURCES_DIR == "resources"
FORMATS_DIR == "formats"
CONFIGURATIONS_DIR == "configurations"
VIEWS_DIR == "views"

---------------------------------------------------------------------------
(* load_resource *)

\* Variant: the copied schema is left unmarked
MergeFormat_Untagged(resource_json, format_schema) ==
    IF resource_json["schema"] = SENTINEL
    THEN SetItem(SetItem(resource_json, "format", format_schema), "schema", format_schema)
    ELSE SetItem(resource_json, "format", format_schema)

\* lines 166-186: the record with its transient format merged in
MergeFormat(resource_json, format_schema) ==
    IF resource_json["schema"] = SENTINEL
    THEN \* schema and format are one object: the tag shows in both
         LET tagged == SetItem(format_schema, "type", "format")
         IN  SetItem(SetItem(resource_json, "format", tagged), "schema", tagged)
    ELSE SetItem(resource_json, "format", format_schema)

\* Variant: the resource's own schema stands in for the missing format
MergePlaceholder_Schema(resource_json) ==
    SetItem(resource_json, "format", resource_json["schema"])

MergePlaceholder(resource_json) == SetItem(resource_json, "format", PLACEHOLDER)

\* Variant: an unrecognized profile falls back to the raw record
Construct_Fallback(resource_json, as_dict, io) ==
    IF as_dict \/ resource_json["profile"] \notin {"tabular-data-resource",
                                                   "parameter-tabular-data-resource"}
    THEN Return(resource_json, io)
    ELSE Return(TabularDataResource(resource_json), io)

\* lines 188-201
Construct(resource_json, as_dict, io) ==
    IF as_dict
    THEN Return(resource_json, io)
    ELSE IF resource_json["profile"] \in {"tabular-data-resource",
                                          "parameter-tabular-data-resource"}
    THEN Return(TabularDataResource(resource_json), io)
    ELSE Raise("NotImplementedError", {resource_json["profile"]}, io)

load_resource(res, fmts, resource_name, format_name, as_dict) ==
    LET io1 == <<Read(RESOURCES_DIR, resource_name)>>
        io2 == Append(io1, Read(FORMATS_DIR, format_name))
    IN  IF IsMissing(res[resource_name])
        THEN Raise("FileNotFoundError", {resource_name}, io1)
        ELSE IF format_name = NoFormat
        THEN Construct(MergePlaceholder(res[resource_name]), as_dict, io1)
        ELSE IF IsMissing(fmts[format_name])
        THEN Raise("FileNotFoundError", {format_name}, io2)
        ELSE Construct(MergeFormat(res[resource_name], fmts[format_name]["schema"]),
                       as_dict, io2)

---------------------------------------------------------------------------
(* Definition stores *)

\* find_by_name(array, name): the first element so named, or None
RECURSIVE find_by_name(_, _)
find_by_name(array, name) ==
    IF array = <<>> THEN None
    ELSE IF Head(array)["name"] = name THEN Head(array)
    ELSE find_by_name(Tail(array), name)

load_view(vws, view_name) ==
    IF IsMissing(vws[view_name])
    THEN Raise("FileNotFoundError", {view_name}, <<Read(VIEWS_DIR, view_name)>>)
    ELSE Return(vws[view_name], <<Read(VIEWS_DIR, view_name)>>)

load_configuration(cfgs, configuration_name) ==
    IF IsMissing(cfgs[configuration_name])
    THEN Raise("FileNotFoundError", {configuration_name},
               <<Read(CONFIGURATIONS_DIR, configuration_name)>>)
    ELSE Return(cfgs[configuration_name],
                <<Read(CONFIGURATIONS_DIR, configuration_name)>>)

\* Variant: the fields of the record written are laid over the stored one
write_configuration_Merge(cfgs, configuration) ==
    LET stored == cfgs[configuration["name"]]
    IN  [cfgs EXCEPT ![configuration["name"]] =
            IF IsMissing(stored) THEN configuration
            ELSE [k \in DOMAIN stored \cup DOMAIN configuration |->
                     IF k \in DOMAIN configuration THEN configuration[k] ELSE stored[k]]]

\* The stored configurations after write_configuration(configuration)
write_configuration(cfgs, configuration) ==
    [cfgs EXCEPT ![configuration["name"]] = configuration]

\* Variant: the binding's format name is dropped
load_resource_by_variable_NoFormat(res, fmts, cfgs, variable_name, configuration_name, as_dict) ==
    LET configuration == load_configuration(cfgs, configuration_name)
    IN  IF configuration.exc # "None" THEN configuration
        ELSE LET variable == find_by_name(configuration.val["data"], variable_name)
             IN  IF IsNone(variable)
                 THEN Raise("KeyError", {variable_name, configuration_name},
                            configuration.io)
                 ELSE LET loaded == load_resource(res, fmts, variable["resource"],
                                                  NoFormat, as_dict)
                      IN  [loaded EXCEPT !.io = configuration.io \o loaded.io]

load_resource_by_variable(res, fmts, cfgs, variable_name, configuration_name, as_dict) ==
    LET configuration == load_configuration(cfgs, configuration_name)
    IN  IF configuration.exc # "None" THEN configuration
        ELSE LET variable == find_by_name(configuration.val["data"], variable_name)
             IN  IF IsNone(variable)
                 THEN Raise("KeyError", {variable_name, configuration_name},
                            configuration.io)
                 ELSE LET loaded == load_resource(res, fmts, variable["resource"],
                                                  variable["format"], as_dict)
                      IN  [loaded EXCEPT !.io = configuration.io \o loaded.io]

---------------------------------------------------------------------------
(* write_resource *)

\* Variant: the transient format is left in the record
StripFormat_Keep(resource_json) == resource_json

\* line 246: resource_json.pop("format")
StripFormat(resource_json) == Pop(resource_json, "format")

\* Variant: the copied schema is written as if the resource owned it
Unmerge_KeepCopy(resource_json) == resource_json

\* lines 248-250
Unmerge(resource_json) ==
    IF DictGet(resource_json["schema"], "type") = "format"
    THEN SetItem(resource_json, "schema", SENTINEL)
    ELSE resource_json

\* Variant: the metadata is rewritten with the timestamp alone
Touch_Bare(dp, now) == [updated |-> now \div TicksPerSecond]

\* Variant: the metadata is rewritten as read
Touch_Stale(dp, now) == dp

\* line 259: dp["updated"] = int(time.time())
Touch(dp, now) == SetItem(dp, "updated", now \div TicksPerSecond)

\* The call's outcome, the stored records after it, and the caller's
\* argument after it (a raw record is edited in place).
write_resource(res, dp, resource, now) ==
    LET typed == IsTabularDataResource(resource)
        resource_json == IF typed THEN to_dict(resource) ELSE resource
        name == resource_json["name"]
        stripped == StripFormat(resource_json)
        unmerged == Unmerge(stripped)
        io1 == <<Write(RESOURCES_DIR, name)>>
        io2 == Append(io1, Read("", "datapackage"))
        io3 == Append(io2, Write("", "datapackage"))
        written == [res EXCEPT ![name] = unmerged]
        Effect(out, r, d, arg) ==
            [out |-> out, resources |-> r, datapackage |-> d,
             arg |-> IF typed THEN resource ELSE arg]
    IN  IF "format" \notin DOMAIN resource_json
        THEN Effect(Raise("KeyError", {"format"}, <<>>), res, dp, resource_json)
        ELSE IF IsStr(stripped["schema"])
        THEN Effect(Raise("AttributeError", {"get"}, <<>>), res, dp, stripped)
        ELSE IF IsMissing(dp)
        THEN Effect(Raise("FileNotFoundError", {"datapackage"}, io2),
                    written, dp, unmerged)
        ELSE Effect(Return(None, io3), written, Touch(dp, now), unmerged)

---------------------------------------------------------------------------
(* Container executor and orchestrator *)

Whitespace == {" ", "\n", "\t"}

RECURSIVE lstrip(_)
lstrip(s) == IF s # <<>> /\ Head(s) \in Whitespace THEN lstrip(Tail(s)) ELSE s

RECURSIVE rstrip(_)
rstrip(s) ==
    IF s # <<>> /\ s[Len(s)] \in Whitespace
    THEN rstrip(SubSeq(s, 1, Len(s) - 1)) ELSE s

\* str.strip()
strip(s) == rstrip(lstrip(s))

\* The three uses of the container runtime, each with what it is given or
\* what it answers
RunContainer(image, environment) ==
    [ev |-> "run", image |-> image, environment |-> environment]
WaitContainer(StatusCode) == [ev |-> "wait", StatusCode |-> StatusCode]
FetchLogs(output) == [ev |-> "logs", output |-> output]

\* Variant: the logs are fetched while the container runs, and a failed
\* container is run once more
execute_container_Retry(container_name, environment, StatusCode, output) ==
    LET once == <<RunContainer(container_name, environment),
                  FetchLogs(output), WaitContainer(StatusCode)>>
    IN  IF StatusCode # 0
        THEN Outcome("ExecutionError", strip(output), {}, once \o once)
        ELSE Return(strip(output), once)

\* Variant: the captured output is handed on untrimmed
execute_container_Untrimmed(container_name, environment, StatusCode, output) ==
    LET io == <<RunContainer(container_name, environment),
                WaitContainer(StatusCode), FetchLogs(output)>>
    IN  IF StatusCode # 0
        THEN Outcome("ExecutionError", output, {}, io)
        ELSE Return(output, io)

\* The container ends with StatusCode and has written `output`
execute_container(container_name, environment, StatusCode, output) ==
    LET io == <<RunContainer(container_name, environment),
                WaitContainer(StatusCode), FetchLogs(output)>>
    IN  IF StatusCode # 0
        THEN Outcome("ExecutionError", strip(output), {}, io)
        ELSE Return(strip(output), io)

\* Variant: a datapackage run checks the bound resources as a view does
execute_datapackage_Checked(cfgs, configuration_name, StatusCode, output) ==
    LET configuration == load_configuration(cfgs, configuration_name)
    IN  IF configuration.exc # "None" THEN configuration
        ELSE LET bound == {configuration.val["data"][i]["resource"] :
                              i \in DOMAIN configuration.val["data"]}
                 empty == {n \in bound :
                              IsMissing(resources[n]) \/ Falsy(resources[n]["data"])}
                 run == execute_container(configuration.val["container"],
                                          "CONFIGURATION" :> configuration_name,
                                          StatusCode, output)
             IN  IF empty # {}
                 THEN Raise("ResourceError", empty,
                            configuration.io \o <<Read(RESOURCES_DIR, CHOOSE n \in empty : TRUE)>>)
                 ELSE [run EXCEPT !.io = configuration.io \o run.io]

execute_datapackage(cfgs, configuration_name, StatusCode, output) ==
    LET configuration == load_configuration(cfgs, configuration_name)
    IN  IF configuration.exc # "None" THEN configuration
        ELSE LET run == execute_container(configuration.val["container"],
                                          "CONFIGURATION" :> configuration_name,
                                          StatusCode, output)
             IN  [run EXCEPT !.io = configuration.io \o run.io]

\* Variant: no resource is checked
CheckResources_Skip(res, names, i, io) == Return(None, io)

\* lines 62-73: the first declared resource that fails the check, from
\* position i on; its outcome, or a return of None when all pass
RECURSIVE CheckResources(_, _, _, _)
CheckResources(res, names, i, io) ==
    IF i > Len(names) THEN Return(None, io)
    ELSE LET resource_name == names[i]
             io1 == Append(io, Read(RESOURCES_DIR, resource_name))
         IN  IF IsMissing(res[resource_name])
             THEN Raise("FileNotFoundError", {resource_name}, io1)
             ELSE IF Falsy(res[resource_name]["data"])
             THEN Raise("ResourceError", {resource_name}, io1)
             ELSE CheckResources(res, names, i + 1, io1)

\* Variant: a view run announces itself as a datapackage run
execute_view_AsConfiguration(res, vws, view_name, StatusCode, output) ==
    LET view == load_view(vws, view_name)
    IN  IF view.exc # "None" THEN view
        ELSE LET checked == CheckResources(res, view.val["resources"], 1, view.io)
             IN  IF checked.exc # "None" THEN checked
                 ELSE LET run == execute_container(view.val["container"],
                                                   "CONFIGURATION" :> view_name,
                                                   StatusCode, output)
                      IN  [run EXCEPT !.io = checked.io \o run.io]

execute_view(res, vws, view_name, StatusCode, output) ==
    LET view == load_view(vws, view_name)
    IN  IF view.exc # "None" THEN view
        ELSE LET checked == CheckResources(res, view.val["resources"], 1, view.io)
             IN  IF checked.exc # "None" THEN checked
                 ELSE LET run == execute_container(view.val["container"],
                                                   "VIEW" :> view_name,
                                                   StatusCode, output)
                      IN  [run EXCEPT !.io = checked.io \o run.io]

---------------------------------------------------------------------------
(* The datapackage the model runs on *)

ResourceNames == {"r1", "r2"}
FormatNames == {"f1", "f2"}
FormatArgs == FormatNames \cup {NoFormat}
ConfigurationNames == {"c1", "c2"}
ViewNames == {"v0", "v1", "v2"}
VariableNames == {"x", "y", "z"}

\* Data payloads: an empty and a populated list of rows
Data == {<<>>, <<1>>}

ExplicitSchemas ==
    {[fields |-> "own"], [fields |-> "own", type |-> "format"]}
Schemas == {SENTINEL} \cup ExplicitSchemas

Resource(name, profile, schema, data) ==
    [name |-> name, profile |-> profile, schema |-> schema, data |-> data]

\* r1 has any schema, a profile that is recognized or not, and any data;
\* r2 is a parameter resource that inherits its schema, or does not exist.
InitialResources ==
    {[n \in ResourceNames |-> IF n = "r1" THEN a ELSE b] :
        a \in {Resource("r1", p, s, d) :
                  p \in {"tabular-data-resource", "other"}, s \in Schemas, d \in Data},
        b \in {Resource("r2", "parameter-tabular-data-resource", SENTINEL, d) : d \in Data}
              \cup {Missing}}

InitialFormats ==
    [f \in FormatNames |->
        IF f = "f1" THEN [name |-> f, schema |-> [fields |-> "a"]]
        ELSE [name |-> f, schema |-> [fields |-> "b", type |-> "object"]]]

Binding(name, resource, format) ==
    [name |-> name, resource |-> resource, format |-> format]

Configuration1 ==
    [name |-> "c1", title |-> "first", container |-> "algorithm:1",
     data |-> <<Binding("x", "r1", "f1"), Binding("y", "r2", "f2"),
                Binding("x", "r2", "f1")>>]
Configuration1b ==
    [name |-> "c1", container |-> "algorithm:2",
     data |-> <<Binding("y", "r1", "f2"), Binding("x", "r1", NoFormat)>>]
WritableConfigurations == {Configuration1, Configuration1b}

InitialConfigurations ==
    [c \in ConfigurationNames |-> IF c = "c1" THEN Configuration1 ELSE Missing]

InitialViews ==
    [v \in ViewNames |->
        IF v = "v1" THEN [name |-> v, container |-> "view:1", resources |-> <<"r1", "r2">>]
        ELSE IF v = "v2" THEN [name |-> v, container |-> "view:2", resources |-> <<"r2", "r1">>]
        ELSE Missing]

StatusCodes == {0, 1}
\* Captured output: text with surrounding and inner whitespace, and
\* whitespace alone
Outputs == {<<" ", "o", " ", "k", "\n">>, <<"\n">>}

---------------------------------------------------------------------------
(* State machine *)

Stored ==
    [resources |-> resources, configurations |-> configurations,
     datapackage |-> datapackage]

Call(op, args, out) == [op |-> op, args |-> args, out |-> out]

\* The processes that may call into the library at the same time
Callers == {"p1", "p2"}

\* The frame of a call: the statement it is at, its locals, and (history)
\* the stored records when it began and the statement it stopped at
Frame(pc, op, name, record, dp, exc, at, start, last) ==
    [pc |-> pc, op |-> op, name |-> name, record |-> record, dp |-> dp,
     exc |-> exc, at |-> at, start |-> start, last |-> last]

Idle == Frame("idle", "none", "", None, None, "None", "", None, FALSE)

Init ==
    /\ resources \in InitialResources
    /\ formats = InitialFormats
    /\ configurations = InitialConfigurations
    /\ views = InitialViews
    /\ datapackage \in {[updated |-> 0, resources |-> <<"r1", "r2">>], Missing}
    /\ clock = TicksPerSecond
    /\ held = None
    /\ origin = None
    /\ before = Stored
    /\ result = Call("none", None, Return(None, <<>>))
    /\ calls = [p \in Callers |-> Idle]

\* What the caller keeps of a load: the value and the call that gave it
Keep(out, resource_name, format_name, as_dict) ==
    IF out.exc = "None"
    THEN /\ held' = out.val
         /\ origin' = [resource_name |-> resource_name, format_name |-> format_name,
                       as_dict |-> as_dict, disk |-> resources[resource_name]]
    ELSE UNCHANGED <<held, origin>>

LoadResource ==
    \E resource_name \in ResourceNames, format_name \in FormatArgs, as_dict \in BOOLEAN :
        LET out == load_resource(resources, formats, resource_name, format_name, as_dict)
        IN  /\ result' = Call("load_resource",
                              [resource_name |-> resource_name,
                               format_name |-> format_name, as_dict |-> as_dict], out)
            /\ Keep(out, resource_name, format_name, as_dict)
            /\ before' = Stored
            /\ UNCHANGED <<calls, resources, formats, configurations, views, datapackage, clock>>

LoadResourceByVariable ==
    \E variable_name \in VariableNames, configuration_name \in ConfigurationNames,
       as_dict \in BOOLEAN :
        LET out == load_resource_by_variable(resources, formats, configurations,
                                             variable_name, configuration_name, as_dict)
            variable == find_by_name(configurations[configuration_name]["data"],
                                     variable_name)
        IN  /\ result' = Call("load_resource_by_variable",
                              [variable_name |-> variable_name,
                               configuration_name |-> configuration_name,
                               as_dict |-> as_dict], out)
            /\ IF out.exc = "None"
               THEN Keep(out, variable["resource"], variable["format"], as_dict)
               ELSE UNCHANGED <<held, origin>>
            /\ before' = Stored
            /\ UNCHANGED <<calls, resources, formats, configurations, views, datapackage, clock>>

\* The caller's value with its data payload replaced
WithData(value, data) ==
    IF IsTabularDataResource(value)
    THEN [typed |-> SetItem(value.typed, "data", data)]
    ELSE SetItem(value, "data", data)

\* The values a caller passes to write_resource: what it loaded, with the
\* data payload as loaded or updated
Updated(value) == {WithData(value, data) : data \in Data}

WriteResource ==
    /\ ~IsNone(held)
    /\ \E resource \in Updated(held), now \in clock..(IF clock < MaxClock THEN clock + 1 ELSE clock) :
        LET w == write_resource(resources, datapackage, resource, now)
        IN  /\ result' = Call("write_resource", [resource |-> resource], w.out)
            /\ resources' = w.resources
            /\ datapackage' = w.datapackage
            /\ held' = w.arg
            /\ clock' = IF w.out.exc = "None" THEN now ELSE clock
            /\ before' = Stored
            /\ UNCHANGED <<calls, formats, configurations, views, origin>>

WriteConfiguration ==
    \E configuration \in WritableConfigurations :
        /\ configurations' = write_configuration(configurations, configuration)
        /\ result' = Call("write_configuration", [configuration |-> configuration],
                          Return(None, <<Write(CONFIGURATIONS_DIR, configuration["name"])>>))
        /\ before' = Stored
        /\ UNCHANGED <<calls, resources, formats, views, datapackage, clock, held, origin>>

ExecuteDatapackage ==
    \E configuration_name \in ConfigurationNames, StatusCode \in StatusCodes,
       output \in Outputs :
        /\ result' = Call("execute_datapackage",
                          [configuration_name |-> configuration_name],
                          execute_datapackage(configurations, configuration_name,
                                              StatusCode, output))
        /\ before' = Stored
        /\ UNCHANGED <<calls, resources, formats, configurations, views, datapackage, clock,
                       held, origin>>

ExecuteView ==
    \E view_name \in ViewNames, StatusCode \in StatusCodes, output \in Outputs :
        /\ result' = Call("execute_view", [view_name |-> view_name],
                          execute_view(resources, views, view_name, StatusCode, output))
        /\ before' = Stored
        /\ UNCHANGED <<calls, resources, formats, configurations, views, datapackage, clock,
                       held, origin>>

Next ==
    \/ LoadResource
    \/ LoadResourceByVariable
    \/ WriteResource
    \/ WriteConfiguration
    \/ ExecuteDatapackage
    \/ ExecuteView

\* A datapackage as authored, before any run has populated it
InitUnpopulated ==
    /\ Init
    /\ resources["r1"]["profile"] = "tabular-data-resource"
    /\ \A n \in ResourceNames : ~IsMissing(resources[n]) /\ resources[n]["data"] = <<>>
    /\ ~IsMissing(datapackage)

Spec == InitUnpopulated /\ [][Next]_vars

\* The resource store alone, on any datapackage
NextStore ==
    \/ LoadResource
    \/ LoadResourceByVariable
    \/ WriteResource

SpecStore == Init /\ [][NextStore]_vars

\* The configuration store and the orchestrator alone, on any datapackage
NextRun ==
    \/ WriteConfiguration
    \/ ExecuteDatapackage
    \/ ExecuteView

SpecRun == Init /\ [][NextRun]_vars

---------------------------------------------------------------------------
(* The writes, statement by statement *)

\* open(path, "w") truncates the file; it is empty until the dump
Empty == [empty |-> TRUE]
IsEmpty(v) == "empty" \in DOMAIN v

\* json.load succeeds on a file that exists and holds a document
Readable(file) == ~IsMissing(file) /\ ~IsEmpty(file)

\* Variant: the metadata is rewritten before the resource is written
WriteResourceSteps_MetadataFirst ==
    <<"read_metadata", "stamp", "open_metadata", "dump_metadata",
      "open_resource", "dump_resource", "done">>

\* lines 252-262 in program order, statements ending in the return
WriteResourceSteps ==
    <<"open_resource", "dump_resource",
      "read_metadata", "stamp", "open_metadata", "dump_metadata", "done">>

\* lines 143-147
WriteConfigurationSteps == <<"open_configuration", "dump_configuration", "done">>

StepsOf(op) ==
    IF op = "write_resource" THEN WriteResourceSteps ELSE WriteConfigurationSteps

PcAfter(op, pc) ==
    LET steps == StepsOf(op)
        i == CHOOSE i \in DOMAIN steps : steps[i] = pc
    IN  steps[i + 1]

At(p, pc) == calls[p].pc = pc

\* The caller's frame after the statement it is at
Advance(p) == [calls[p] EXCEPT !.pc = PcAfter(calls[p].op, calls[p].pc)]

\* The caller's frame when the call ends at the statement it is at
Stop(p, pc, exc) == [calls[p] EXCEPT !.pc = pc, !.exc = exc, !.at = calls[p].pc]

\* The frames once p has written the file: p is the last writer of it
Wrote(p) ==
    [q \in Callers |->
        IF q = p THEN [Advance(p) EXCEPT !.last = TRUE]
        ELSE IF calls[q].op = calls[p].op /\ calls[q].name = calls[p].name
        THEN [calls[q] EXCEPT !.last = FALSE]
        ELSE calls[q]]

\* lines 237-250, on a value the caller loaded and may have edited
BeginWriteResource(p) ==
    /\ At(p, "idle")
    /\ \E resource_name \in ResourceNames, format_name \in FormatArgs, as_dict \in BOOLEAN :
        /\ Readable(resources[resource_name])
        /\ LET loaded == load_resource(resources, formats, resource_name, format_name,
                                       as_dict)
           IN  /\ loaded.exc = "None"
               /\ \E resource \in Updated(loaded.val) :
                    LET resource_json == IF IsTabularDataResource(resource)
                                         THEN to_dict(resource) ELSE resource
                        failed(exc) == Frame("failed", "write_resource", resource_name,
                                             None, None, exc, "begin", Stored, FALSE)
                    IN  calls' = [calls EXCEPT ![p] =
                            IF "format" \notin DOMAIN resource_json
                            THEN failed("KeyError")
                            ELSE IF IsStr(StripFormat(resource_json)["schema"])
                            THEN failed("AttributeError")
                            ELSE Frame(WriteResourceSteps[1], "write_resource",
                                       resource_name, Unmerge(StripFormat(resource_json)),
                                       None, "None", "", Stored, FALSE)]
    /\ UNCHANGED <<resources, formats, configurations, views, datapackage, clock,
                   held, origin, before, result>>

\* line 252: open(resource_path, "w")
OpenResource(p) ==
    /\ At(p, "open_resource")
    /\ resources' = [resources EXCEPT ![calls[p].name] = Empty]
    /\ calls' = [calls EXCEPT ![p] = Advance(p)]
    /\ UNCHANGED <<formats, configurations, views, datapackage, clock,
                   held, origin, before, result>>

\* line 253: json.dump(resource_json, f) and the close of the file
DumpResource(p) ==
    /\ At(p, "dump_resource")
    /\ resources' = [resources EXCEPT ![calls[p].name] = calls[p].record]
    /\ calls' = Wrote(p)
    /\ UNCHANGED <<formats, configurations, views, datapackage, clock,
                   held, origin, before, result>>

\* lines 256-257: dp = json.load(open(datapackage.json))
ReadMetadata(p) ==
    /\ At(p, "read_metadata")
    /\ calls' = [calls EXCEPT ![p] =
           IF IsMissing(datapackage) THEN Stop(p, "failed", "FileNotFoundError")
           ELSE IF IsEmpty(datapackage) THEN Stop(p, "failed", "JSONDecodeError")
           ELSE [Advance(p) EXCEPT !.dp = datapackage]]
    /\ UNCHANGED <<resources, formats, configurations, views, datapackage, clock,
                   held, origin, before, result>>

\* line 259: dp["updated"] = int(time.time())
StampMetadata(p) ==
    /\ At(p, "stamp")
    /\ \E now \in clock..(IF clock < MaxClock THEN clock + 1 ELSE clock) :
        /\ calls' = [calls EXCEPT ![p] = [Advance(p) EXCEPT !.dp = Touch(calls[p].dp, now)]]
        /\ clock' = now
    /\ UNCHANGED <<resources, formats, configurations, views, datapackage,
                   held, origin, before, result>>

\* line 261: open(datapackage.json, "w")
OpenMetadata(p) ==
    /\ At(p, "open_metadata")
    /\ datapackage' = Empty
    /\ calls' = [calls EXCEPT ![p] = Advance(p)]
    /\ UNCHANGED <<resources, formats, configurations, views, clock,
                   held, origin, before, result>>

\* line 262: json.dump(dp, f) and the close of the file
DumpMetadata(p) ==
    /\ At(p, "dump_metadata")
    /\ datapackage' = calls[p].dp
    /\ calls' = [calls EXCEPT ![p] = Advance(p)]
    /\ UNCHANGED <<resources, formats, configurations, views, clock,
                   held, origin, before, result>>

\* lines 138-142: the call and its path
BeginWriteConfiguration(p) ==
    /\ At(p, "idle")
    /\ \E configuration \in WritableConfigurations :
        calls' = [calls EXCEPT ![p] =
            Frame(WriteConfigurationSteps[1], "write_configuration",
                  configuration["name"], configuration, None, "None", "", Stored, FALSE)]
    /\ UNCHANGED <<resources, formats, configurations, views, datapackage, clock,
                   held, origin, before, result>>

\* lines 143-146: open(configuration_path, "w")
OpenConfiguration(p) ==
    /\ At(p, "open_configuration")
    /\ configurations' = [configurations EXCEPT ![calls[p].name] = Empty]
    /\ calls' = [calls EXCEPT ![p] = Advance(p)]
    /\ UNCHANGED <<resources, formats, views, datapackage, clock,
                   held, origin, before, result>>

\* line 147: json.dump(configuration, f) and the close of the file
DumpConfiguration(p) ==
    /\ At(p, "dump_configuration")
    /\ configurations' = write_configuration(configurations, calls[p].record)
    /\ calls' = Wrote(p)
    /\ UNCHANGED <<resources, formats, views, datapackage, clock,
                   held, origin, before, result>>

\* The process is killed in the middle of a call
Interrupt(p) ==
    /\ calls[p].pc \notin {"idle", "done", "failed", "interrupted"}
    /\ calls' = [calls EXCEPT ![p] = Stop(p, "interrupted", "None")]
    /\ UNCHANGED <<resources, formats, configurations, views, datapackage, clock,
                   held, origin, before, result>>

\* The call is over; the caller (or the process started in its place) may
\* call again
Finish(p) ==
    /\ calls[p].pc \in {"done", "failed", "interrupted"}
    /\ calls' = [calls EXCEPT ![p] = Idle]
    /\ UNCHANGED <<resources, formats, configurations, views, datapackage, clock,
                   held, origin, before, result>>

\* One caller writing resources, on any datapackage, killed at any statement
NextSteps ==
    \/ BeginWriteResource("p1")
    \/ OpenResource("p1")
    \/ DumpResource("p1")
    \/ ReadMetadata("p1")
    \/ StampMetadata("p1")
    \/ OpenMetadata("p1")
    \/ DumpMetadata("p1")
    \/ Interrupt("p1")
    \/ Finish("p1")

SpecSteps == Init /\ [][NextSteps]_vars

\* Two callers, one call each, on a datapackage as authored
NextRace ==
    \/ \E p \in Callers : BeginWriteResource(p)
    \/ \E p \in Callers : OpenResource(p)
    \/ \E p \in Callers : DumpResource(p)
    \/ \E p \in Callers : ReadMetadata(p)
    \/ \E p \in Callers : StampMetadata(p)
    \/ \E p \in Callers : OpenMetadata(p)
    \/ \E p \in Callers : DumpMetadata(p)
    \/ \E p \in Callers : BeginWriteConfiguration(p)
    \/ \E p \in Callers : OpenConfiguration(p)
    \/ \E p \in Callers : DumpConfiguration(p)

SpecRace == InitUnpopulated /\ [][NextRace]_vars

---------------------------------------------------------------------------
(* Vocabulary of the properties *)

\* The raw record of a loaded value
RawOf(value) == IF IsTabularDataResource(value) THEN to_dict(value) ELSE value

Returned == result.out.exc = "None"
Events == result.out.io
Did(event) == \E i \in DOMAIN Events : Events[i] = event
Started == {i \in DOMAIN Events : Events[i].ev = "run"}

\* The last call was load_resource of an existing resource with an
\* existing format, and it returned
LoadedWithFormat ==
    /\ result.op = "load_resource"
    /\ result.args.format_name # NoFormat
    /\ Returned

\* The last call was write_resource of a value that still had the transient
\* format it was loaded with, and that load named a format and found the
\* sentinel on disk
WroteBackInherited ==
    /\ result.op = "write_resource"
    /\ "format" \in DOMAIN RawOf(result.args.resource)
    /\ origin.format_name # NoFormat
    /\ origin.disk["schema"] = SENTINEL

---------------------------------------------------------------------------
(* C1: a resource stored with the sentinel schema, loaded with a format   *)
(* and written back, is stored with the sentinel schema again: the write  *)
(* persists the record, the value written held the format's schema as an  *)
(* object, and the stored schema is the sentinel, not that object.        *)
C1_RoundTripKeepsSentinel ==
    WroteBackInherited =>
        /\ Did(Write(RESOURCES_DIR, origin.resource_name))
        /\ IsDict(RawOf(result.args.resource)["schema"])
        /\ RawOf(result.args.resource)["schema"]["fields"]
               = formats[origin.format_name]["schema"]["fields"]
        /\ resources[origin.resource_name]["schema"] = SENTINEL

C1_Witness ==
    /\ WroteBackInherited
    /\ Returned
    /\ before.resources[origin.resource_name]["schema"] = SENTINEL
    /\ resources[origin.resource_name]["schema"] = SENTINEL
    /\ resources[origin.resource_name]["data"] # before.resources[origin.resource_name]["data"]

(* C2: no stored resource record has a `format` field, whatever calls     *)
(* were made and whether they returned or raised.                         *)
C2_NoStoredFormat ==
    \A n \in ResourceNames :
        ~IsMissing(resources[n]) => "format" \notin DOMAIN resources[n]

C2_Witness ==
    /\ result.op = "write_resource"
    /\ "format" \in DOMAIN RawOf(result.args.resource)
    /\ Did(Write(RESOURCES_DIR, RawOf(result.args.resource)["name"]))
    /\ result.out.exc = "FileNotFoundError" \/ Returned

(* C3: load_resource with a format: a sentinel schema becomes the         *)
(* format's schema marked type = "format"; an explicit schema stays the   *)
(* stored object.  The claim adds that the explicit schema is untagged.   *)
C3_SchemaAfterLoad(untagged) ==
    LoadedWithFormat =>
        LET stored == resources[result.args.resource_name]["schema"]
            schema == RawOf(result.out.val)["schema"]
            F == formats[result.args.format_name]["schema"]
        IN  IF stored = SENTINEL
            THEN /\ DOMAIN schema = DOMAIN F \cup {"type"}
                 /\ \A k \in DOMAIN F \ {"type"} : schema[k] = F[k]
                 /\ schema["type"] = "format"
            ELSE /\ schema = stored
                 /\ untagged => DictGet(schema, "type") # "format"

Declared == views[result.args.view_name]["resources"]
Unpopulated(n) == ~IsMissing(resources[n]) /\ Falsy(resources[n]["data"])
EmptyAt == {i \in DOMAIN Declared : Unpopulated(Declared[i])}
MissingAt == {i \in DOMAIN Declared : IsMissing(resources[Declared[i]])}
First(S) == CHOOSE i \in S : \A j \in S : i <= j

ViewLoaded ==
    /\ result.op = "execute_view"
    /\ ~IsMissing(views[result.args.view_name])

C4_Precondition(reads_succeed) ==
    ViewLoaded =>
        /\ EmptyAt # {} =>
              /\ Started = {}
              /\ IF reads_succeed \/ \A j \in MissingAt : First(EmptyAt) < j
                 THEN /\ result.out.exc = "ResourceError"
                      /\ result.out.names = {Declared[First(EmptyAt)]}
                 ELSE /\ result.out.exc = "FileNotFoundError"
                      /\ result.out.names = {Declared[First(MissingAt)]}
        /\ Started # {} =>
              /\ EmptyAt = {} /\ MissingAt = {}
              /\ \A i \in DOMAIN Declared :
                    \E k \in DOMAIN Events :
                        /\ Events[k] = Read(RESOURCES_DIR, Declared[i])
                        /\ \A r \in Started : k < r

\* as claimed
C4_ViewPreconditionAsClaimed == C4_Precondition(TRUE)

\* as amended: when a resource declared before the first empty one has no
\* record, the read of that record fails first
C4_ViewPrecondition == C4_Precondition(FALSE)

C4_Witness ==
    /\ ViewLoaded
    /\ Declared = <<"r1", "r2">>
    /\ EmptyAt = {1, 2}
    /\ result.out.exc = "ResourceError"
    /\ result.out.names = {"r1"}
    /\ Started = {}

(* C5: a container run has two outcomes.  On a non-zero exit status the   *)
(* call raises ExecutionError carrying the captured output, trimmed; on   *)
(* exit status zero it returns the captured output, trimmed.              *)
StatusOf == Events[CHOOSE i \in DOMAIN Events : Events[i].ev = "wait"].StatusCode
CapturedOf == Events[CHOOSE i \in DOMAIN Events : Events[i].ev = "logs"].output

\* t is s without its leading and trailing whitespace
IsTrimmed(s, t) ==
    /\ \E i \in 1..(Len(s) + 1) :
          /\ i + Len(t) - 1 <= Len(s)
          /\ \A k \in 1..Len(t) : t[k] = s[i + k - 1]
          /\ \A k \in 1..Len(s) : (k < i \/ k > i + Len(t) - 1) => s[k] \in Whitespace
    /\ t # <<>> => t[1] \notin Whitespace /\ t[Len(t)] \notin Whitespace

C5_ExecutionOutcome ==
    Started # {} =>
        /\ IsTrimmed(CapturedOf, result.out.val)
        /\ StatusOf # 0 => result.out.exc = "ExecutionError"
        /\ StatusOf = 0 => result.out.exc = "None"

C5_Witness ==
    /\ Started # {}
    /\ StatusOf = 1
    /\ CapturedOf = <<" ", "o", " ", "k", "\n">>
    /\ result.out.exc = "ExecutionError"
    /\ result.out.val = <<"o", " ", "k">>

Bindings == configurations[result.args.configuration_name]["data"]
Named == {i \in DOMAIN Bindings : Bindings[i]["name"] = result.args.variable_name}

ResolvedVariable ==
    /\ result.op = "load_resource_by_variable"
    /\ ~IsMissing(configurations[result.args.configuration_name])

C7_VariableResolution ==
    ResolvedVariable =>
        IF Named # {}
        THEN LET binding == Bindings[First(Named)]
                 direct == load_resource(resources, formats, binding["resource"],
                                         binding["format"], result.args.as_dict)
             IN  /\ result.out.exc = direct.exc
                 /\ result.out.val = direct.val
                 /\ result.out.names = direct.names
                 /\ Returned => RawOf(result.out.val)["name"] = binding["resource"]
                 /\ (Returned /\ binding["format"] # NoFormat) =>
                       RawOf(result.out.val)["format"]
                              \in {formats[binding["format"]]["schema"],
                                   SetItem(formats[binding["format"]]["schema"],
                                           "type", "format")}
        ELSE /\ result.out.exc = "KeyError"
             /\ result.out.names = {result.args.variable_name,
                                    result.args.configuration_name}
             /\ \A i \in DOMAIN Events :
                   Events[i].ev = "read" =>
                       Events[i].dir \notin {RESOURCES_DIR, FORMATS_DIR}

\* "x" is bound twice in c1: first to r1 with f1, then to r2 with f1
C7_Witness ==
    /\ ResolvedVariable
    /\ result.args.variable_name = "x"
    /\ Cardinality(Named) = 2
    /\ Returned
    /\ RawOf(result.out.val)["name"] = "r1"
    /\ ~IsMissing(resources["r2"])

(* C8: load_resource without a format name gives the record with the      *)
(* fixed placeholder as its transient format, whatever its schema, and    *)
(* with the schema as stored.                                             *)
LoadedWithoutFormat ==
    /\ result.op = "load_resource"
    /\ result.args.format_name = NoFormat
    /\ Returned

Recognized == {"tabular-data-resource", "parameter-tabular-data-resource"}

ReadResource ==
    /\ result.op = "load_resource"
    /\ ~IsMissing(resources[result.args.resource_name])

TheRun == Events[CHOOSE i \in Started : TRUE]

C10_ContainerInvocation ==
    Started # {} =>
        /\ Cardinality(Started) = 1
        /\ result.op = "execute_datapackage" =>
              /\ TheRun.image = configurations[result.args.configuration_name]["container"]
              /\ DOMAIN TheRun.environment = {"CONFIGURATION"}
              /\ TheRun.environment["CONFIGURATION"] = result.args.configuration_name
        /\ result.op = "execute_view" =>
              /\ TheRun.image = views[result.args.view_name]["container"]
              /\ DOMAIN TheRun.environment = {"VIEW"}
              /\ TheRun.environment["VIEW"] = result.args.view_name
        /\ result.op \in {"execute_datapackage", "execute_view"}

C10_Witness ==
    /\ result.op = "execute_view"
    /\ Started # {}
    /\ TheRun.image = "view:2"
    /\ TheRun.environment = ("VIEW" :> "v2")

(* C11: after write_configuration(c) the stored record named c.name is c, *)
(* with no field of the record it replaced, load_configuration returns    *)
(* it, and no other stored record has changed.                            *)
WroteConfiguration == result.op = "write_configuration"

C11_ConfigurationReplaced ==
    WroteConfiguration =>
        LET c == result.args.configuration
            loaded == load_configuration(configurations, c["name"])
        IN  /\ loaded.exc = "None"
            /\ DOMAIN loaded.val = DOMAIN c
            /\ \A k \in DOMAIN c : loaded.val[k] = c[k]
            /\ \A n \in ConfigurationNames \ {c["name"]} :
                  configurations[n] = before.configurations[n]
            /\ resources = before.resources
            /\ datapackage = before.datapackage
            /\ formats = InitialFormats
            /\ views = InitialViews

\* c1 is stored with a title; the record written over it has none
C11_Witness ==
    /\ WroteConfiguration
    /\ result.args.configuration = Configuration1b
    /\ "title" \in DOMAIN before.configurations["c1"]
    /\ "title" \notin DOMAIN configurations["c1"]

(* C14: after load_resource with format F the transient format is F's     *)
(* stored schema, no key added or changed, for an explicit and for a      *)
(* sentinel schema alike (only `schema` is tagged), and F's stored record *)
(* is unchanged.                                                          *)
C14_FormatIsFormatSchema ==
    LoadedWithFormat =>
        LET F == InitialFormats[result.args.format_name]["schema"]
            loaded == RawOf(result.out.val)
        IN  /\ loaded["format"] = F
            /\ resources[result.args.resource_name]["schema"] = SENTINEL =>
                  loaded["schema"]["type"] = "format"
            /\ formats = InitialFormats

(* C15: a call of the executor starts the container once, then waits for  *)
(* it once, then fetches its logs once, whether the container succeeds or *)
(* fails.                                                                 *)
EventsOf(kind) == {i \in DOMAIN Events : Events[i].ev = kind}

C15_ExecutorOrder ==
    Started # {} =>
        /\ Cardinality(EventsOf("run")) = 1
        /\ Cardinality(EventsOf("wait")) = 1
        /\ Cardinality(EventsOf("logs")) = 1
        /\ \A r \in EventsOf("run"), w \in EventsOf("wait"), l \in EventsOf("logs") :
              r < w /\ w < l

C15_Witness ==
    /\ Started # {}
    /\ StatusOf = 1
    /\ result.out.exc = "ExecutionError"
    /\ Cardinality(EventsOf("logs")) = 1

(* C16: a resource stored with an explicit schema object, whatever its    *)
(* keys, loaded as a raw record with a format and written back            *)
(* unmodified, is stored with that same schema object.                    *)
WroteBackExplicit ==
    /\ result.op = "write_resource"
    /\ ~IsTabularDataResource(result.args.resource)
    /\ "format" \in DOMAIN result.args.resource
    /\ origin.format_name # NoFormat
    /\ origin.disk["schema"] # SENTINEL
    /\ result.args.resource["data"] = origin.disk["data"]

C16_ExplicitRoundTrip ==
    WroteBackExplicit =>
        resources[origin.resource_name]["schema"] = origin.disk["schema"]

(* C17: a write_resource that returns writes resources/<name>.json and    *)
(* datapackage.json and nothing else; of the metadata only `updated`      *)
(* changes; every other stored record is as before.  The load operations  *)
(* change no stored record.                                               *)
C17_WriteFrame ==
    /\ (result.op = "write_resource" /\ Returned) =>
          LET name == RawOf(result.args.resource)["name"]
          IN  /\ Events = <<Write(RESOURCES_DIR, name), Read("", "datapackage"),
                            Write("", "datapackage")>>
              /\ \A n \in ResourceNames \ {name} : resources[n] = before.resources[n]
              /\ DOMAIN datapackage = DOMAIN before.datapackage
              /\ \A k \in DOMAIN datapackage \ {"updated"} :
                    datapackage[k] = before.datapackage[k]
              /\ configurations = before.configurations
              /\ formats = InitialFormats
              /\ views = InitialViews
    /\ result.op \in {"load_resource", "load_resource_by_variable"} =>
          /\ Stored = before
          /\ formats = InitialFormats
          /\ views = InitialViews
          /\ \A i \in DOMAIN Events : Events[i].ev = "read"

C17_Witness ==
    /\ result.op = "write_resource" /\ Returned
    /\ RawOf(result.args.resource)["name"] = "r1"
    /\ resources["r1"] # before.resources["r1"]
    /\ ~IsMissing(resources["r2"])
    /\ datapackage["updated"] # before.datapackage["updated"]
    /\ datapackage["resources"] = <<"r1", "r2">>

(* C18: write_resource of a record that has no `format` field, or whose   *)
(* schema is the bare sentinel string, raises before it writes anything:  *)
(* the stored resource records and the metadata are as before.            *)
Unmergeable ==
    /\ result.op = "write_resource"
    /\ \/ "format" \notin DOMAIN RawOf(result.args.resource)
       \/ RawOf(result.args.resource)["schema"] = SENTINEL

C18_FailsBeforeStorage ==
    Unmergeable =>
        /\ result.out.exc =
              IF "format" \notin DOMAIN RawOf(result.args.resource)
              THEN "KeyError" ELSE "AttributeError"
        /\ Events = <<>>
        /\ resources = before.resources
        /\ datapackage = before.datapackage

\* the record load_resource gives with as_dict and no format name for a
\* resource stored with the sentinel
C18_Witness ==
    /\ Unmergeable
    /\ origin.as_dict /\ origin.format_name = NoFormat
    /\ origin.disk["schema"] = SENTINEL
    /\ "format" \in DOMAIN result.args.resource
    /\ result.args.resource["format"] = PLACEHOLDER
    /\ result.args.resource["data"] # resources[origin.resource_name]["data"]
    /\ result.out.exc = "AttributeError"

(* C19: execute_datapackage starts the container whenever the             *)
(* configuration loads, whatever the resources hold, and reads no         *)
(* resource record; when the configuration does not load no container is  *)
(* started.                                                               *)
RanDatapackage == result.op = "execute_datapackage"

C19_NoPrecondition ==
    RanDatapackage =>
        IF IsMissing(configurations[result.args.configuration_name])
        THEN /\ Started = {}
             /\ result.out.exc = "FileNotFoundError"
        ELSE /\ Started # {}
             /\ result.out.exc \in {"None", "ExecutionError"}
             /\ \A i \in DOMAIN Events :
                   Events[i].ev = "read" => Events[i].dir = CONFIGURATIONS_DIR

\* c1 binds r1 and r2: r1 is empty and r2 has no record
C19_Witness ==
    /\ RanDatapackage
    /\ result.args.configuration_name = "c1"
    /\ Falsy(resources["r1"]["data"])
    /\ IsMissing(resources["r2"])
    /\ Started # {}
    /\ Returned

(* C12: in write_resource the resource record is persisted before the     *)
(* metadata is read or rewritten; a call that is interrupted, or whose    *)
(* metadata step fails, between the two steps leaves the new resource     *)
(* record stored together with the metadata as it was; the metadata is    *)
(* never changed by a call whose resource record is not stored.           *)
TheWrite == calls["p1"]

MetadataSteps == {"read_metadata", "stamp", "open_metadata", "dump_metadata", "done"}
BetweenSteps == {"read_metadata", "stamp", "open_metadata"}

Persisted == resources[TheWrite.name] = TheWrite.record

C12_TwoStepOrder ==
    TheWrite.op = "write_resource" =>
        /\ (TheWrite.pc \in MetadataSteps \/ TheWrite.at \in MetadataSteps) => Persisted
        /\ (TheWrite.pc \in {"interrupted", "failed"} /\ TheWrite.at \in BetweenSteps) =>
              /\ Persisted
              /\ "schema" \in DOMAIN resources[TheWrite.name]
              /\ "format" \notin DOMAIN resources[TheWrite.name]
              /\ datapackage = TheWrite.start.datapackage
        /\ datapackage # TheWrite.start.datapackage => Persisted

C12_Witness ==
    /\ TheWrite.op = "write_resource"
    /\ TheWrite.pc = "interrupted"
    /\ TheWrite.at = "open_metadata"
    /\ resources[TheWrite.name] # TheWrite.start.resources[TheWrite.name]
    /\ Readable(datapackage)
    /\ datapackage["updated"] = 0
    /\ TheWrite.dp["updated"] = 1

(* C13: when two write_resource calls, or two write_configuration calls,  *)
(* interleave, neither fails because of the other, and once both are over *)
(* the record stored under a name both wrote is the record of the one     *)
(* that wrote last.                                                       *)
StoredBy(op) == IF op = "write_resource" THEN resources ELSE configurations

C13_LastWriterWins ==
    /\ \A p \in Callers : calls[p].pc = "failed" => calls[p].at = "begin"
    /\ \A p, q \in Callers :
          ( /\ p # q
            /\ calls[p].pc = "done" /\ calls[q].pc = "done"
            /\ calls[p].op = calls[q].op /\ calls[p].name = calls[q].name ) =>
              \E w \in {p, q} :
                  /\ calls[w].last
                  /\ StoredBy(calls[w].op)[calls[w].name] = calls[w].record

====
